---- MODULE Spec2Model ----
(***************************************************************************)
(* Plugin transport and runtime of azalea_applet.                          *)
(*                                                                         *)
(* Part I   Framed Connection (src/src/connection.rs, Connection): the     *)
(*          bytes of one direction of a UnixStream, the peer that writes   *)
(*          them and the reader that calls read_frame.                     *)
(* Part II  Acceptor, exchange loops, bridge and registry                  *)
(*          (connection.rs subscribe, runtime.rs PluginRuntime, lib.rs).   *)
(***************************************************************************)
EXTENDS Integers, Sequences, FiniteSets, TLC

(***************************************************************************)
(* Bounds of the model.                                                    *)
(***************************************************************************)
\* content bytes (Vec<u8> items, theme and element fields) range over 0..MaxByte
MaxByte == 1
\* longest Vec<u8> carried by a Message
MaxItems == 1
\* number of writes the peer of a connection performs
MaxWrites == 2
\* number of read_frame calls the reader performs
MaxCalls == 2

(***************************************************************************)
(* Sequences of bytes.                                                     *)
(***************************************************************************)
Take(s, k) == SubSeq(s, 1, k)

Drop(s, k) == SubSeq(s, k + 1, Len(s))

Min(a, b) == IF a <= b THEN a ELSE b

ContentByte == 0..MaxByte

RECURSIVE SeqsUpTo(_, _)
SeqsUpTo(S, n) ==
    IF n = 0 THEN {<<>>}
    ELSE LET shorter == SeqsUpTo(S, n - 1)
         IN  shorter \cup {Append(s, b) : s \in {t \in shorter : Len(t) = n - 1}, b \in S}

RECURSIVE SeqsOfLen(_, _)
SeqsOfLen(S, n) ==
    IF n = 0 THEN {<<>>}
    ELSE {Append(s, b) : s \in SeqsOfLen(S, n - 1), b \in S}

(***************************************************************************)
(* Messages (lib.rs).  A message is [kind, body]: body holds the bytes of  *)
(* the variant's content (the items of Message, the fields of Theme and    *)
(* of Element in declaration order, one byte standing for each field).     *)
(***************************************************************************)
\* struct Theme { palette, extended }
ThemeFields == 2
\* struct Element { widget }
ElementFields == 1

PluginEvent ==
    {[kind |-> "Update", body |-> <<>>]}
    \cup {[kind |-> "Message", body |-> b] : b \in SeqsUpTo(ContentByte, MaxItems)}
    \cup {[kind |-> "Theme", body |-> b] : b \in SeqsOfLen(ContentByte, ThemeFields)}

PluginRequest ==
    {[kind |-> "View", body |-> b] : b \in SeqsOfLen(ContentByte, ElementFields)}
    \cup {[kind |-> "Message", body |-> b] : b \in SeqsUpTo(ContentByte, MaxItems)}

\* the message type T a connection end reads: the plugin reads PluginEvent,
\* the host reads PluginRequest
MessagesOf(T) == IF T = "PluginEvent" THEN PluginEvent ELSE PluginRequest

NoMessage == [kind |-> "none", body |-> <<>>]

(***************************************************************************)
(* bincode, standard configuration: an enum is its variant index as a      *)
(* varint followed by the variant's fields; a Vec<u8> is its length as a   *)
(* varint followed by its bytes; a struct is its fields in order.  A       *)
(* varint below 251 is one byte (all lengths of the model are).            *)
(***************************************************************************)
Varint(n) == <<n>>

encode_to_vec(m) ==
    CASE m.kind = "Update"  -> Varint(0)
      [] m.kind = "Message" -> Varint(1) \o Varint(Len(m.body)) \o m.body
      [] m.kind = "Theme"   -> Varint(2) \o m.body
      [] m.kind = "View"    -> Varint(0) \o m.body

DecodeFailed == [ok |-> FALSE, msg |-> NoMessage]

Decoded(m) == [ok |-> TRUE, msg |-> m]

\* Vec<u8>: the length, then that many bytes
DecodeItems(bytes) ==
    IF Len(bytes) < 2 \/ Len(bytes) < 2 + bytes[2]
    THEN DecodeFailed
    ELSE Decoded([kind |-> "Message", body |-> SubSeq(bytes, 3, 2 + bytes[2])])

\* a struct of n fields
DecodeFields(kind, n, bytes) ==
    IF Len(bytes) < 1 + n
    THEN DecodeFailed
    ELSE Decoded([kind |-> kind, body |-> SubSeq(bytes, 2, 1 + n)])

\* decode_from_slice reads one value from the start of the slice and ignores
\* what follows it; it fails on an unknown variant index and on a slice that
\* ends too early
decode_from_slice(T, bytes) ==
    IF bytes = <<>> THEN DecodeFailed
    ELSE IF T = "PluginEvent"
    THEN CASE bytes[1] = 0 -> Decoded([kind |-> "Update", body |-> <<>>])
           [] bytes[1] = 1 -> DecodeItems(bytes)
           [] bytes[1] = 2 -> DecodeFields("Theme", ThemeFields, bytes)
           [] OTHER -> DecodeFailed
    ELSE CASE bytes[1] = 0 -> DecodeFields("View", ElementFields, bytes)
           [] bytes[1] = 1 -> DecodeItems(bytes)
           [] OTHER -> DecodeFailed

(***************************************************************************)
(* Frames (connection.rs).                                                 *)
(***************************************************************************)
\* the length written most significant byte first
to_be_bytes(n) ==
    <<(n \div 16777216) % 256, (n \div 65536) % 256, (n \div 256) % 256, n % 256>>

\* u32::to_le_bytes
to_le_bytes(n) ==
    <<n % 256, (n \div 256) % 256, (n \div 65536) % 256, (n \div 16777216) % 256>>

\* Buf::get_u32_le
get_u32_le(b) == b[1] + 256 * b[2] + 65536 * b[3] + 16777216 * b[4]

\* the bytes write_frame hands to write_all: the length, then the payload
FrameBytes(m) ==
    LET src == encode_to_vec(m)
    IN  to_le_bytes(Len(src)) \o src

\* the bytes is_open writes
ProbeBytes == <<0, 0, 0, 0, 0>>


(***************************************************************************)
(* Part I: one direction of a connection.                                  *)
(*                                                                         *)
(*   T            the message type the reader decodes                      *)
(*   inflight     the buffers the peer has written that have not arrived,  *)
(*                one per write_all, oldest first                          *)
(*   stream       the bytes that have arrived and were not read yet        *)
(*   peer_closed  the peer has closed its end                              *)
(*   written      what the peer wrote, oldest first                        *)
(*   pc           where the reader is inside read_frame ("idle": outside)  *)
(*   size_buf     the bytes read_exact has collected of the length         *)
(*   size         the length parse_frame decoded                           *)
(*   buffer       Connection::buffer                                       *)
(*   parse_err    the error of the last parse_frame of the running call    *)
(*   result       what the last read_frame call returned                   *)
(*   results      what the read_frame calls returned, oldest first         *)
(*   call         of the running (or last) call: the bytes it has taken    *)
(*                from the stream and the length of buffer when it began   *)
(***************************************************************************)
VARIABLES T, inflight, stream, peer_closed, written,
          pc, size_buf, size, buffer, parse_err, result, results, call

connVars == <<T, inflight, stream, peer_closed, written,
              pc, size_buf, size, buffer, parse_err, result, results, call>>

peerVars == <<inflight, peer_closed, written>>

readerVars == <<pc, size_buf, size, buffer, parse_err, result, results, call>>

\* the state of Part II (described there)
VARIABLES COUNTER, task, id, message, updates, to_plugin, to_host, plugin,
          tx, receiver, plugins, failure, handled, given, rendered,
          sent, delivered, wrote

sysVars == <<COUNTER, task, id, message, updates, to_plugin, to_host, plugin,
             tx, receiver, plugins, failure, handled, given, rendered,
             sent, delivered, wrote>>

vars == <<connVars, sysVars>>

\* Result<Option<T>, Box<dyn Error>>
OkSome(m) == [tag |-> "Some", msg |-> m, err |-> ""]

OkNone == [tag |-> "None", msg |-> NoMessage, err |-> ""]

Err(e) == [tag |-> "Err", msg |-> NoMessage, err |-> e]

\* a read of the stream returns 0 bytes: the peer has closed and every byte
\* it wrote has been read
AtEOF == peer_closed /\ inflight = <<>> /\ stream = <<>>

\* a read of the stream returns now (with bytes, or with 0 at the end)
ReadReady == stream # <<>> \/ AtEOF

InitConn ==
    /\ T \in {"PluginEvent", "PluginRequest"}
    /\ inflight = <<>>
    /\ stream = <<>>
    /\ peer_closed = FALSE
    /\ written = <<>>
    /\ pc = "idle"
    /\ size_buf = <<>>
    /\ size = 0
    /\ buffer = <<>>
    /\ parse_err = ""
    /\ result = OkNone
    /\ results = <<>>
    /\ call = [consumed |-> 0, buffered |-> 0]

(***************************************************************************)
(* The peer.                                                               *)
(***************************************************************************)
PeerWrites(kind, m, bytes) ==
    /\ ~peer_closed
    /\ Len(written) < MaxWrites
    /\ inflight' = Append(inflight, bytes)
    /\ written' = Append(written, [kind |-> kind, msg |-> m])
    /\ UNCHANGED <<T, stream, peer_closed, readerVars>>
    /\ UNCHANGED sysVars

\* write_frame(message): one write_all of the length and the payload
write_frame ==
    \E m \in MessagesOf(T) : PeerWrites("frame", m, FrameBytes(m))

\* is_open: one write_all of the five zero bytes
is_open == PeerWrites("probe", NoMessage, ProbeBytes)

\* a peer that stops in the middle of a frame: a non-empty strict prefix of
\* the bytes of a frame
PeerWritesPrefix ==
    \E m \in MessagesOf(T) :
        \E k \in 1..(Len(FrameBytes(m)) - 1) :
            PeerWrites("prefix", NoMessage, Take(FrameBytes(m), k))

\* a peer that does not follow the protocol: a frame whose payload has an
\* unknown variant index, and a zero length followed by a non-zero byte
Malformed == {to_le_bytes(1) \o <<3>>, <<0, 0, 0, 0, 1>>}

PeerWritesMalformed ==
    \E bytes \in Malformed : PeerWrites("malformed", NoMessage, bytes)

PeerCloses ==
    /\ ~peer_closed
    /\ peer_closed' = TRUE
    /\ UNCHANGED <<T, inflight, stream, written, readerVars>>
    /\ UNCHANGED sysVars

(***************************************************************************)
(* The socket: a written buffer arrives whole, or a part of it arrives     *)
(* first; what has arrived and is unread is read together.                 *)
(***************************************************************************)
DeliverWhole ==
    /\ inflight # <<>>
    /\ stream' = stream \o Head(inflight)
    /\ inflight' = Tail(inflight)
    /\ UNCHANGED <<T, peer_closed, written, readerVars>>
    /\ UNCHANGED sysVars

DeliverPart ==
    /\ inflight # <<>>
    /\ \E k \in 1..(Len(Head(inflight)) - 1) :
        /\ stream' = stream \o Take(Head(inflight), k)
        /\ inflight' = <<Drop(Head(inflight), k)>> \o Tail(inflight)
    /\ UNCHANGED <<T, peer_closed, written, readerVars>>
    /\ UNCHANGED sysVars

(***************************************************************************)
(* The reader: read_frame and parse_frame, one action per read of the      *)
(* stream.  read_buf appends what it reads to buffer; it is given the      *)
(* spare capacity of buffer (4096 at first, at least size + 4 after the    *)
(* reserve of parse_frame), which is more than the bytes of the model, so  *)
(* it takes every byte that has arrived.                                   *)
(***************************************************************************)
Returns(r) ==
    /\ pc' = "idle"
    /\ result' = r
    /\ results' = Append(results, r)

Takes(k) == call' = [call EXCEPT !.consumed = @ + k]

\* the caller calls read_frame, which calls parse_frame
Call ==
    /\ pc = "idle"
    /\ Len(results) < MaxCalls
    /\ pc' = "header"
    /\ parse_err' = ""
    /\ call' = [consumed |-> 0, buffered |-> Len(buffer)]
    /\ UNCHANGED <<T, stream, peerVars, size_buf, size, buffer, result, results>>
    /\ UNCHANGED sysVars

\* where parse_frame goes once read_exact has the four bytes of the length
AfterHeader(n) == IF n = 0 THEN "sentinel" ELSE "payload"

\* parse_frame: read_exact(&mut size_buf), one read of the stream at a time
ReadHeader ==
    /\ pc = "header"
    /\ \/ /\ stream # <<>>
          /\ LET k  == Min(4 - Len(size_buf), Len(stream))
                 sb == size_buf \o Take(stream, k)
             IN  /\ stream' = Drop(stream, k)
                 /\ Takes(k)
                 /\ IF Len(sb) < 4
                    THEN /\ size_buf' = sb
                         /\ UNCHANGED <<pc, size>>
                    ELSE /\ size_buf' = <<>>
                         /\ size' = get_u32_le(sb)
                         /\ pc' = AfterHeader(get_u32_le(sb))
          /\ UNCHANGED <<parse_err, buffer, result, results>>
       \/ /\ AtEOF
          \* read_exact fails, the bytes it had collected are dropped with
          \* size_buf, and read_frame goes on to its own read_buf
          /\ size_buf' = <<>>
          /\ parse_err' = "eof"
          /\ pc' = "more"
          /\ UNCHANGED <<stream, size, buffer, result, results, call>>
    /\ UNCHANGED <<T, peerVars>>
    /\ UNCHANGED sysVars

\* parse_frame, size == 0: what the one-byte read leaves in buf[0] (buf
\* starts as [0] and keeps it when the read returns 0 bytes)
SentinelByte == IF stream = <<>> THEN 0 ELSE Head(stream)

ReadSentinel ==
    /\ pc = "sentinel"
    /\ ReadReady
    /\ stream' = IF stream = <<>> THEN stream ELSE Tail(stream)
    /\ Takes(IF stream = <<>> THEN 0 ELSE 1)
    /\ IF SentinelByte = 0
       THEN /\ Returns(OkNone)
            /\ parse_err' = ""
       ELSE /\ pc' = "payload"
            /\ UNCHANGED <<parse_err, result, results>>
    /\ UNCHANGED <<T, peerVars, size_buf, size, buffer>>
    /\ UNCHANGED sysVars

\* parse_frame after its read_buf: buf is buffer with the num_bytes bytes
\* just read appended
parse_payload(Ty, sz, buf, num_bytes) ==
    IF sz # num_bytes
    THEN [err |-> "Size doesn't match actual buffer size", ret |-> OkNone, buffer |-> buf]
    ELSE LET element == decode_from_slice(Ty, buf)
         IN  IF ~element.ok
             THEN [err |-> "decode", ret |-> OkNone, buffer |-> buf]
             ELSE [err |-> "", ret |-> OkSome(element.msg),
                   buffer |-> Drop(buf, num_bytes)]

ReadPayload ==
    /\ pc = "payload"
    /\ ReadReady
    /\ LET out == parse_payload(T, size, buffer \o stream, Len(stream))
       IN  /\ buffer' = out.buffer
           /\ parse_err' = out.err
           /\ IF out.err = ""
              THEN Returns(out.ret)
              ELSE /\ pc' = "more"
                   /\ UNCHANGED <<result, results>>
    /\ stream' = <<>>
    /\ Takes(Len(stream))
    /\ UNCHANGED <<T, peerVars, size_buf, size>>
    /\ UNCHANGED sysVars

\* read_frame without the test for a read of 0 bytes
read_more_no_eof(buf, n) == [returns |-> FALSE, result |-> OkNone]

\* read_frame with the test of buffer.is_empty() inverted
read_more_inverted(buf, n) ==
    IF n = 0
    THEN [returns |-> TRUE,
          result |-> IF buf # <<>> THEN OkNone ELSE Err("connection reset by peer")]
    ELSE [returns |-> FALSE, result |-> OkNone]

\* read_frame after a parse_frame that failed: its read_buf has read n bytes
\* and buf is buffer with them appended; 0 bytes end the call
read_more(buf, n) ==
    IF n = 0
    THEN [returns |-> TRUE,
          result |-> IF buf = <<>> THEN OkNone ELSE Err("connection reset by peer")]
    ELSE [returns |-> FALSE, result |-> OkNone]

ReadMore ==
    /\ pc = "more"
    /\ ReadReady
    /\ LET out == read_more(buffer \o stream, Len(stream))
       IN  IF out.returns
           THEN Returns(out.result)
           ELSE /\ pc' = "header"
                /\ UNCHANGED <<result, results>>
    /\ buffer' = buffer \o stream
    /\ stream' = <<>>
    /\ Takes(Len(stream))
    /\ UNCHANGED <<T, peerVars, size_buf, size, parse_err>>
    /\ UNCHANGED sysVars

Reader == Call \/ ReadHeader \/ ReadSentinel \/ ReadPayload \/ ReadMore

Peer == write_frame \/ is_open \/ PeerWritesPrefix \/ PeerWritesMalformed \/ PeerCloses

NextConn == Peer \/ DeliverWhole \/ DeliverPart \/ Reader

(***************************************************************************)
(* Part II: the host's plugin subsystem and the plugin processes.          *)
(*                                                                         *)
(* Connections are numbered 1..MaxConns in the order the listener accepts  *)
(* them.  Frames travel whole here: the exchange is a lockstep of one      *)
(* frame written and one frame read, the case of Part I in which a frame   *)
(* is read alone.                                                          *)
(*                                                                         *)
(*   COUNTER    lib.rs COUNTER                                             *)
(*   task       where the exchange task of a connection is                 *)
(*   id         the id the task got from unique_id (NoId before)           *)
(*   message    the message the task holds (dequeued event, then reply)    *)
(*   updates    the channel (updates_sender, updates_receiver)             *)
(*   to_plugin  frames and probes the host wrote, not read by the plugin   *)
(*   to_host    frames the plugin wrote, not read by the host              *)
(*   plugin     where the plugin process of a connection is                *)
(*   tx         the channel of RuntimeMessage the host application reads   *)
(*   receiver   the channel (sender, receiver) the bridge task reads       *)
(*   plugins    PluginRuntime::plugins                                     *)
(*   failure    the panic that ended the host application ("" if none)     *)
(*   handled    the RuntimeMessage handle_plugin_message handled last      *)
(*   given      per unique_id call: the id it returned and the ids of the  *)
(*              connections that had ended by then                         *)
(*   rendered   number of Update events the host application has sent      *)
(*   sent       per connection: the elements of the View replies its       *)
(*              plugin has written, oldest first                           *)
(*   wrote      per connection: the kinds of the events its exchange task  *)
(*              has written with write_frame, oldest first                 *)
(*   delivered  the RuntimeMessages a caller of the registry alone has     *)
(*              passed to it, oldest first (registry specification)        *)
(***************************************************************************)

\* connections the listener accepts
MaxConns == 2
\* Update events the host application sends
MaxRenders == 1
\* frames and probes a socket holds unread
MaxUnread == 1

Conns == 1..MaxConns

NoId == -1

Probe == [kind |-> "probe", body |-> <<>>]

\* Option<Arc<Element>>
NoView == [some |-> FALSE, element |-> <<>>]

SomeView(element) == [some |-> TRUE, element |-> element]

\* RuntimeMessage; New carries the Plugin, whose sender is the updates
\* channel of connection chan
New(c, i) == [type |-> "New", id |-> i, chan |-> c, request |-> NoMessage]

Request(m, i) == [type |-> "Request", id |-> i, chan |-> 0, request |-> m]

Shutdown(i) == [type |-> "Shutdown", id |-> i, chan |-> 0, request |-> NoMessage]

NoRuntimeMessage == [type |-> "none", id |-> NoId, chan |-> 0, request |-> NoMessage]

\* the themes the host application passes to handle_plugin_message
Themes == {[kind |-> "Theme", body |-> b] : b \in SeqsOfLen({0}, ThemeFields)}

\* what a plugin replies: app.view gives any element
Views == {m \in PluginRequest : m.kind = "View"}

InitSys ==
    /\ COUNTER = 0
    /\ task = [c \in Conns |-> "unborn"]
    /\ id = [c \in Conns |-> NoId]
    /\ message = [c \in Conns |-> NoMessage]
    /\ updates = [c \in Conns |-> <<>>]
    /\ to_plugin = [c \in Conns |-> <<>>]
    /\ to_host = [c \in Conns |-> <<>>]
    /\ plugin = [c \in Conns |-> "unborn"]
    /\ tx = <<>>
    /\ receiver = <<>>
    /\ plugins = <<>>
    /\ failure = ""
    /\ handled = NoRuntimeMessage
    /\ given = <<>>
    /\ rendered = 0
    /\ sent = [c \in Conns |-> <<>>]
    /\ delivered = <<>>
    /\ wrote = [c \in Conns |-> <<>>]

\* the exchange task has ended: its Connection and updates_receiver are dropped
Ended(c) == task[c] \in {"done", "panicked"}

\* the plugin process holds its end of the socket
PluginOpen(c) == plugin[c] \in {"read", "reply"}

\* the host application runs
HostRuns == failure = ""

\* the host end of the socket of connection c is closed: the exchange task
\* has ended and dropped its Connection, or the host process has ended
HostClosed(c) == Ended(c) \/ ~HostRuns

\* a Plugin with the sender of connection c exists: in a New in tx, in the
\* table, or still in the hands of the task
SenderExists(c) ==
    \/ task[c] = "new"
    \/ \E k \in 1..Len(tx) : tx[k].type = "New" /\ tx[k].chan = c
    \/ \E k \in 1..Len(plugins) : plugins[k].chan = c

(***************************************************************************)
(* The acceptor and the exchange task of a connection (subscribe).         *)
(***************************************************************************)
\* unique_id reading COUNTER without adding to it
unique_id_load(counter) == [id |-> counter, next |-> counter]

\* lib.rs unique_id: COUNTER.fetch_add(1), which returns the value before
unique_id(counter) == [id |-> counter, next |-> counter + 1]

\* listener.accept() gives the stream of the next plugin that connected (run
\* in lib.rs connects and starts reading) and the task is spawned
Accept(c) ==
    /\ HostRuns
    /\ task[c] = "unborn"
    /\ \A d \in Conns : d < c => task[d] # "unborn"
    /\ task' = [task EXCEPT ![c] = "spawned"]
    /\ plugin' = [plugin EXCEPT ![c] = "read"]
    /\ UNCHANGED <<COUNTER, id, message, updates, to_plugin, to_host,
                   tx, receiver, plugins, failure, handled, given, rendered>>
    /\ UNCHANGED <<connVars, sent, delivered, wrote>>

\* let id = unique_id(); the updates channel and the Plugin are created
GetId(c) ==
    /\ HostRuns
    /\ task[c] = "spawned"
    /\ id' = [id EXCEPT ![c] = unique_id(COUNTER).id]
    /\ COUNTER' = unique_id(COUNTER).next
    /\ given' = Append(given, [id |-> unique_id(COUNTER).id,
                               ended |-> {id[d] : d \in {e \in Conns : Ended(e)}}])
    /\ task' = [task EXCEPT ![c] = "new"]
    /\ UNCHANGED <<message, updates, to_plugin, to_host, plugin,
                   tx, receiver, plugins, failure, handled, rendered>>
    /\ UNCHANGED <<connVars, sent, delivered, wrote>>

\* tx.send(RuntimeMessage::New(plugin, id)), then Connection::new(stream)
SendNew(c) ==
    /\ HostRuns
    /\ task[c] = "new"
    /\ tx' = Append(tx, New(c, id[c]))
    /\ task' = [task EXCEPT ![c] = "probe"]
    /\ UNCHANGED <<COUNTER, id, message, updates, to_plugin, to_host, plugin,
                   receiver, plugins, failure, handled, given, rendered>>
    /\ UNCHANGED <<connVars, sent, delivered, wrote>>

\* connection.is_open(): the write of the probe fails once the plugin has
\* closed its end
IsOpen(c) ==
    /\ HostRuns
    /\ task[c] = "probe"
    /\ \/ /\ PluginOpen(c)
          /\ Len(to_plugin[c]) < MaxUnread
          /\ to_plugin' = [to_plugin EXCEPT ![c] = Append(@, Probe)]
          /\ task' = [task EXCEPT ![c] = "wait"]
       \/ /\ ~PluginOpen(c)
          /\ task' = [task EXCEPT ![c] = "shutdown"]
          /\ UNCHANGED to_plugin
    /\ UNCHANGED <<COUNTER, id, message, updates, to_host, plugin,
                   tx, receiver, plugins, failure, handled, given, rendered>>
    /\ UNCHANGED <<connVars, sent, delivered, wrote>>

\* a Shutdown that overtakes what is queued on the stream
SendShutdownFirst(c) ==
    /\ HostRuns
    /\ task[c] = "shutdown"
    /\ tx' = <<Shutdown(id[c])>> \o tx
    /\ task' = [task EXCEPT ![c] = "done"]
    /\ UNCHANGED <<COUNTER, id, message, updates, to_plugin, to_host, plugin,
                   receiver, plugins, failure, handled, given, rendered>>
    /\ UNCHANGED <<connVars, sent, delivered, wrote>>

\* tx.send(RuntimeMessage::Shutdown(id)); break
SendShutdown(c) ==
    /\ HostRuns
    /\ task[c] = "shutdown"
    /\ tx' = Append(tx, Shutdown(id[c]))
    /\ task' = [task EXCEPT ![c] = "done"]
    /\ UNCHANGED <<COUNTER, id, message, updates, to_plugin, to_host, plugin,
                   receiver, plugins, failure, handled, given, rendered>>
    /\ UNCHANGED <<connVars, sent, delivered, wrote>>

\* a recv that takes the newest event of the channel
RecvNewest(c) ==
    /\ HostRuns
    /\ task[c] = "wait"
    /\ \/ /\ updates[c] # <<>>
          /\ message' = [message EXCEPT ![c] = updates[c][Len(updates[c])]]
          /\ updates' = [updates EXCEPT ![c] = SubSeq(@, 1, Len(@) - 1)]
          /\ task' = [task EXCEPT ![c] = "write"]
       \/ /\ updates[c] = <<>>
          /\ task' = [task EXCEPT ![c] = "probe"]
          /\ UNCHANGED <<message, updates>>
    /\ UNCHANGED <<COUNTER, id, to_plugin, to_host, plugin,
                   tx, receiver, plugins, failure, handled, given, rendered>>
    /\ UNCHANGED <<connVars, sent, delivered, wrote>>

\* timeout(500 ms, updates_receiver.recv()): a queued event, or nothing (the
\* timeout elapsed, or recv gave None because no sender is left)
Recv(c) ==
    /\ HostRuns
    /\ task[c] = "wait"
    /\ \/ /\ updates[c] # <<>>
          /\ message' = [message EXCEPT ![c] = Head(updates[c])]
          /\ updates' = [updates EXCEPT ![c] = Tail(@)]
          /\ task' = [task EXCEPT ![c] = "write"]
       \/ /\ updates[c] = <<>>
          /\ task' = [task EXCEPT ![c] = "probe"]
          /\ UNCHANGED <<message, updates>>
    /\ UNCHANGED <<COUNTER, id, to_plugin, to_host, plugin,
                   tx, receiver, plugins, failure, handled, given, rendered>>
    /\ UNCHANGED <<connVars, sent, delivered, wrote>>

\* connection.write_frame(message).await.unwrap()
WriteFrame(c) ==
    /\ HostRuns
    /\ task[c] = "write"
    /\ \/ /\ PluginOpen(c)
          /\ to_plugin' = [to_plugin EXCEPT ![c] = Append(@, message[c])]
          /\ wrote' = [wrote EXCEPT ![c] = Append(@, message[c].kind)]
          /\ task' = [task EXCEPT ![c] = "read"]
       \/ /\ ~PluginOpen(c)
          /\ task' = [task EXCEPT ![c] = "panicked"]
          /\ UNCHANGED <<to_plugin, wrote>>
    /\ UNCHANGED <<COUNTER, id, message, updates, to_host, plugin,
                   tx, receiver, plugins, failure, handled, given, rendered>>
    /\ UNCHANGED <<connVars, sent, delivered>>

\* an exchange loop that does not wait for read_frame
ReadFrameNoWait(c) ==
    /\ HostRuns
    /\ task[c] = "read"
    /\ \/ /\ to_host[c] # <<>>
          /\ receiver' = Append(receiver, <<Head(to_host[c]), id[c]>>)
          /\ to_host' = [to_host EXCEPT ![c] = Tail(@)]
       \/ /\ to_host[c] = <<>>
          /\ UNCHANGED <<receiver, to_host>>
    /\ message' = [message EXCEPT ![c] = NoMessage]
    /\ task' = [task EXCEPT ![c] = "probe"]
    /\ UNCHANGED <<COUNTER, id, updates, to_plugin, plugin,
                   tx, plugins, failure, handled, given, rendered>>
    /\ UNCHANGED <<connVars, sent, delivered, wrote>>

\* if let Ok(Some(message)) = connection.read_frame() { sender.send(..) }
ReadFrame(c) ==
    /\ HostRuns
    /\ task[c] = "read"
    /\ \/ /\ to_host[c] # <<>>
          /\ receiver' = Append(receiver, <<Head(to_host[c]), id[c]>>)
          /\ to_host' = [to_host EXCEPT ![c] = Tail(@)]
       \/ /\ to_host[c] = <<>>
          /\ ~PluginOpen(c)
          /\ UNCHANGED <<receiver, to_host>>
    /\ message' = [message EXCEPT ![c] = NoMessage]
    /\ task' = [task EXCEPT ![c] = "probe"]
    /\ UNCHANGED <<COUNTER, id, updates, to_plugin, plugin,
                   tx, plugins, failure, handled, given, rendered>>
    /\ UNCHANGED <<connVars, sent, delivered, wrote>>

\* a bridge that forwards the newest message of the channel first
BridgeNewestFirst ==
    /\ HostRuns
    /\ receiver # <<>>
    /\ tx' = Append(tx, Request(receiver[Len(receiver)][1], receiver[Len(receiver)][2]))
    /\ receiver' = SubSeq(receiver, 1, Len(receiver) - 1)
    /\ UNCHANGED <<COUNTER, task, id, message, updates, to_plugin, to_host, plugin,
                   plugins, failure, handled, given, rendered>>
    /\ UNCHANGED <<connVars, sent, delivered, wrote>>

\* the bridge task: output.send(RuntimeMessage::Request(message, id))
Bridge ==
    /\ HostRuns
    /\ receiver # <<>>
    /\ tx' = Append(tx, Request(Head(receiver)[1], Head(receiver)[2]))
    /\ receiver' = Tail(receiver)
    /\ UNCHANGED <<COUNTER, task, id, message, updates, to_plugin, to_host, plugin,
                   plugins, failure, handled, given, rendered>>
    /\ UNCHANGED <<connVars, sent, delivered, wrote>>

(***************************************************************************)
(* The plugin process (lib.rs run).                                        *)
(***************************************************************************)
\* a plugin loop that answers whatever frame it reads, a probe too
PluginReadsAnswersProbe(c) ==
    /\ plugin[c] = "read"
    /\ to_plugin[c] # <<>>
    /\ to_plugin' = [to_plugin EXCEPT ![c] = Tail(@)]
    /\ plugin' = [plugin EXCEPT ![c] = "reply"]
    /\ UNCHANGED <<COUNTER, task, id, message, updates, to_host,
                   tx, receiver, plugins, failure, handled, given, rendered>>
    /\ UNCHANGED <<connVars, sent, delivered, wrote>>

\* connection.read_frame(): a probe gives Ok(None) and the loop reads again,
\* an event is answered
PluginReads(c) ==
    /\ plugin[c] = "read"
    /\ \/ /\ to_plugin[c] # <<>>
          /\ to_plugin' = [to_plugin EXCEPT ![c] = Tail(@)]
          /\ plugin' = [plugin EXCEPT ![c] =
                          IF Head(to_plugin[c]) = Probe THEN "read" ELSE "reply"]
       \* the host has closed its end: read_frame returns Ok(None) at once
       \* and the loop calls it again
       \/ /\ to_plugin[c] = <<>>
          /\ HostClosed(c)
          /\ UNCHANGED <<to_plugin, plugin>>
    /\ UNCHANGED <<COUNTER, task, id, message, updates, to_host,
                   tx, receiver, plugins, failure, handled, given, rendered>>
    /\ UNCHANGED <<connVars, sent, delivered, wrote>>

\* connection.write_frame(PluginRequest::View(..)).await.unwrap()
PluginReplies(c) ==
    /\ plugin[c] = "reply"
    /\ \/ /\ ~HostClosed(c)
          /\ \E v \in Views :
                /\ to_host' = [to_host EXCEPT ![c] = Append(@, v)]
                /\ sent' = [sent EXCEPT ![c] = Append(@, v.body)]
          /\ plugin' = [plugin EXCEPT ![c] = "read"]
       \/ /\ HostClosed(c)
          /\ plugin' = [plugin EXCEPT ![c] = "exited"]
          /\ UNCHANGED <<to_host, sent>>
    /\ UNCHANGED <<COUNTER, task, id, message, updates, to_plugin,
                   tx, receiver, plugins, failure, handled, given, rendered>>
    /\ UNCHANGED <<connVars, delivered, wrote>>

\* the plugin process ends (it exits, crashes or is killed)
PluginExits(c) ==
    /\ PluginOpen(c)
    /\ plugin' = [plugin EXCEPT ![c] = "exited"]
    /\ UNCHANGED <<COUNTER, task, id, message, updates, to_plugin, to_host,
                   tx, receiver, plugins, failure, handled, given, rendered>>
    /\ UNCHANGED <<connVars, sent, delivered, wrote>>

(***************************************************************************)
(* The registry (runtime.rs PluginRuntime).  A Plugin of the table is      *)
(* [id, chan, view]: chan names the connection whose updates channel its   *)
(* sender feeds.                                                           *)
(***************************************************************************)
\* a find that takes the first plugin of the table whatever its id
FindFirst(ps, i) == IF ps = <<>> THEN 0 ELSE 1

\* self.plugins.iter().find(|p| p.id == id): the index of the first match, 0
\* if there is none
Find(ps, i) ==
    IF \E k \in 1..Len(ps) : ps[k].id = i
    THEN CHOOSE k \in 1..Len(ps) : ps[k].id = i /\ \A j \in 1..(k - 1) : ps[j].id # i
    ELSE 0

\* Vec::insert(index, element): panics if index > len
CanInsert(ps, index) == index <= Len(ps)

VecInsert(ps, index, p) ==
    SubSeq(ps, 1, index) \o <<p>> \o SubSeq(ps, index + 1, Len(ps))

\* a view that is kept once the plugin has one
SetViewOnce(p, element) ==
    IF p.view.some THEN p ELSE [p EXCEPT !.view = SomeView(element)]

\* plugin.view = Some(element)
SetView(p, element) == [p EXCEPT !.view = SomeView(element)]

\* a retain that removes nothing
RetainAll(ps, i) == ps

\* self.plugins.retain(|p| p.id != id)
Retain(ps, i) ==
    LET keep(p) == p.id # i
    IN  SelectSeq(ps, keep)

NoSend == [chan |-> 0, event |-> NoMessage]

\* handle_plugin_message(message, theme) on the table ps: the table after
\* it, the event it sends and on which sender, and the panic of its
\* Vec::insert if that panics
handle_plugin_message(ps, m, theme) ==
    CASE m.type = "Request" /\ m.request.kind = "Message" ->
            [plugins |-> ps,
             send |-> IF Find(ps, m.id) = 0 THEN NoSend
                      ELSE [chan |-> ps[Find(ps, m.id)].chan,
                            event |-> [kind |-> "Message", body |-> m.request.body]],
             panic |-> ""]
      [] m.type = "Request" /\ m.request.kind = "View" ->
            [plugins |-> IF Find(ps, m.id) = 0 THEN ps
                         ELSE [ps EXCEPT ![Find(ps, m.id)] = SetView(@, m.request.body)],
             send |-> NoSend,
             panic |-> ""]
      [] m.type = "New" ->
            [plugins |-> IF CanInsert(ps, m.id)
                         THEN VecInsert(ps, m.id, [id |-> m.id, chan |-> m.chan, view |-> NoView])
                         ELSE ps,
             send |-> [chan |-> m.chan, event |-> theme],
             panic |-> IF CanInsert(ps, m.id) THEN "" ELSE "insertion index out of bounds"]
      [] m.type = "Shutdown" ->
            [plugins |-> Retain(ps, m.id), send |-> NoSend, panic |-> ""]

\* the host application takes the next RuntimeMessage of the stream and
\* calls handle_plugin_message; sender.send(..).unwrap() panics when the
\* task that held the receiver has ended
Handle ==
    /\ HostRuns
    /\ tx # <<>>
    /\ \E theme \in Themes :
        LET out == handle_plugin_message(plugins, Head(tx), theme)
        IN  IF out.send # NoSend /\ Ended(out.send.chan)
            THEN /\ failure' = "send on a closed channel"
                 /\ UNCHANGED <<plugins, updates>>
            ELSE /\ updates' = IF out.send = NoSend THEN updates
                               ELSE [updates EXCEPT ![out.send.chan] = Append(@, out.send.event)]
                 /\ failure' = out.panic
                 /\ plugins' = out.plugins
    /\ handled' = Head(tx)
    /\ tx' = Tail(tx)
    /\ UNCHANGED <<COUNTER, task, id, message, to_plugin, to_host, plugin,
                   receiver, given, rendered>>
    /\ UNCHANGED <<connVars, sent, delivered, wrote>>

\* views without the filter on Plugin::view
views_unfiltered == plugins

\* PluginRuntime::views: the plugins that have a view, in table order
views ==
    LET has(p) == p.view.some
    IN  SelectSeq(plugins, has)

\* the host application asks a plugin of the table to render: it sends
\* PluginEvent::Update on the plugin's sender
Render(k) ==
    /\ HostRuns
    /\ rendered < MaxRenders
    /\ k \in 1..Len(plugins)
    /\ ~Ended(plugins[k].chan)
    /\ updates' = [updates EXCEPT ![plugins[k].chan] =
                      Append(@, [kind |-> "Update", body |-> <<>>])]
    /\ rendered' = rendered + 1
    /\ UNCHANGED <<COUNTER, task, id, message, to_plugin, to_host, plugin,
                   tx, receiver, plugins, failure, handled, given>>
    /\ UNCHANGED <<connVars, sent, delivered, wrote>>

Exchange(c) ==
    \/ GetId(c) \/ SendNew(c) \/ IsOpen(c) \/ SendShutdown(c)
    \/ Recv(c) \/ WriteFrame(c) \/ ReadFrame(c)

Plugin(c) == PluginReads(c) \/ PluginReplies(c) \/ PluginExits(c)

NextSys ==
    \/ \E c \in Conns : Accept(c) \/ Exchange(c) \/ Plugin(c)
    \/ Bridge
    \/ Handle
    \/ \E k \in 1..MaxConns : Render(k)

(***************************************************************************)
(* The registry alone: a caller passes it RuntimeMessages one at a time,   *)
(* any message with any id, and the exchange task of a connection may end  *)
(* (its updates_receiver is dropped) at any time.                          *)
(***************************************************************************)
\* RuntimeMessages the caller passes
MaxEvents == 3
\* the ids in them range over 0..MaxId
MaxId == 1

Ids == 0..MaxId

RuntimeMessages ==
    {New(c, i) : c \in Conns, i \in Ids}
    \cup {Request(m, i) : m \in PluginRequest, i \in Ids}
    \cup {Shutdown(i) : i \in Ids}

\* the caller's next message arrives on the stream
Deliver(m) ==
    /\ HostRuns
    /\ tx = <<>>
    /\ Len(delivered) < MaxEvents
    /\ tx' = <<m>>
    /\ delivered' = Append(delivered, m)
    /\ UNCHANGED <<COUNTER, task, id, message, updates, to_plugin, to_host, plugin,
                   receiver, plugins, failure, handled, given, rendered, sent, wrote>>
    /\ UNCHANGED connVars

\* the exchange task of connection c ends: break, or a panic of an unwrap
DropReceiver(c) ==
    /\ ~Ended(c)
    /\ task' = [task EXCEPT ![c] = "done"]
    /\ UNCHANGED <<COUNTER, id, message, updates, to_plugin, to_host, plugin,
                   tx, receiver, plugins, failure, handled, given, rendered, sent, wrote>>
    /\ UNCHANGED <<connVars, delivered>>

NextRegistry ==
    \/ \E m \in RuntimeMessages : Deliver(m)
    \/ Handle
    \/ \E c \in Conns : DropReceiver(c)

(***************************************************************************)
(* Specifications.                                                         *)
(***************************************************************************)
\* the plugin subsystem
Init == InitSys /\ InitConn /\ T = "PluginRequest"

Next == NextSys

Spec == Init /\ [][Next]_vars

\* one direction of a connection, whatever the peer writes and however the
\* socket delivers it
ConnInit == InitConn /\ InitSys

SpecConn == ConnInit /\ [][NextConn]_vars

\* the reader runs when a read of the stream can return, and what was
\* written arrives
SpecConnFair ==
    /\ SpecConn
    /\ WF_vars(ReadHeader \/ ReadSentinel \/ ReadPayload \/ ReadMore)
    /\ WF_vars(DeliverWhole)

\* one direction of a connection whose peer writes frames and probes and
\* whose socket hands over each written buffer whole
NextWhole == write_frame \/ is_open \/ PeerCloses \/ DeliverWhole \/ Reader

SpecWhole == ConnInit /\ [][NextWhole]_vars

\* the registry alone
SpecRegistry == Init /\ [][NextRegistry]_vars

\* the plugin subsystem with its tasks scheduled: the tokio runtime runs a
\* task that can take a step, and the host application handles the
\* RuntimeMessages of its stream
SpecFair ==
    /\ Spec
    /\ \A c \in Conns : WF_vars(Accept(c)) /\ WF_vars(Exchange(c))
    /\ WF_vars(Bridge)
    /\ WF_vars(Handle)

\* the plugin subsystem with its tasks and the loops of the plugin
\* processes scheduled
SpecPluginFair ==
    /\ SpecFair
    /\ \A c \in Conns : WF_vars(PluginReads(c)) /\ WF_vars(PluginReplies(c))

(***************************************************************************)
(* Properties of the Framed Connection.                                    *)
(***************************************************************************)
\* the messages of the read_frame calls that returned one
Messages(rs) ==
    LET some(r) == r.tag = "Some"
        got == SelectSeq(rs, some)
    IN  [k \in 1..Len(got) |-> got[k].msg]

\* the messages of the frames the peer wrote with write_frame
RealMessages(ws) ==
    LET frame(w) == w.kind = "frame"
        real == SelectSeq(ws, frame)
    IN  [k \in 1..Len(real) |-> real[k].msg]

\* the peer has written one thing only, of this kind
WroteOnly(kind) == Len(written) = 1 /\ written[1].kind = kind

\* C1: a frame that is all the peer has written, whatever parts of it the
\* socket delivers one after the other, makes the first read_frame call
\* return its message.
C1_SplitFrameIsRead ==
    (WroteOnly("frame") /\ Len(results) >= 1)
        => results[1] = OkSome(written[1].msg)

\* C2: when the peer has written probes and at most one frame, has closed,
\* and the reader has read everything, the messages read_frame returned are
\* the messages of the frames written (what the frame alone gives, C3).
C2_ProbesAreTransparent ==
    (pc = "idle" /\ AtEOF /\ Len(RealMessages(written)) <= 1)
        => Messages(results) = RealMessages(written)

\* C3: the buffer write_frame(m) writes is the 4-byte little-endian length
\* of the payload followed by the payload, and the read_frame call of the
\* peer that receives it returns m.
C3_FrameRoundTrip ==
    WroteOnly("frame") =>
        /\ inflight # <<>> =>
              /\ Len(inflight[1]) >= 4
              /\ get_u32_le(Take(inflight[1], 4)) = Len(inflight[1]) - 4
              /\ decode_from_slice(T, Drop(inflight[1], 4)) = Decoded(written[1].msg)
        /\ Len(results) >= 1 => results[1] = OkSome(written[1].msg)

C3_Witness ==
    /\ WroteOnly("frame")
    /\ written[1].msg.kind \in {"Message", "Theme", "View"}
    /\ written[1].msg.body # <<>>
    /\ results = <<OkSome(written[1].msg)>>

\* C4: once parse_frame has found the declared length to differ from the
\* bytes it read, read_frame has returned that error to its caller.
C4_FramingErrorIsReturned ==
    parse_err = "Size doesn't match actual buffer size"
        => (pc = "idle" /\ result = Err("Size doesn't match actual buffer size"))

\* C5: once parse_frame has failed to decode the payload of a frame,
\* read_frame has returned the decode error to its caller.
C5_DecodeErrorIsReturned ==
    parse_err = "decode" => (pc = "idle" /\ result = Err("decode"))

\* C6: when the peer has closed after writing a non-empty strict prefix of
\* a frame and nothing else, the read_frame call that meets it fails with
\* connection reset.
C6_PrefixIsConnectionReset ==
    (WroteOnly("prefix") /\ peer_closed /\ Len(results) >= 1)
        => results[1] = Err("connection reset by peer")

\* C7: once the peer has closed, a read_frame call that is running returns.
C7_ReadFrameReturns == (peer_closed /\ pc # "idle") ~> (pc = "idle")

\* a frame was cut short after its length and part of its payload, the peer
\* closed, and the call failed
C7_Witness ==
    /\ WroteOnly("prefix")
    /\ peer_closed
    /\ pc = "idle"
    /\ call.consumed >= 5
    /\ results = <<Err("connection reset by peer")>>

\* C8: a read_frame call that began with an empty buffer and returned
\* without having read a byte (the peer closed at a frame boundary) returned
\* Ok(None).
C8_CleanCloseIsNoMessage ==
    (pc = "idle" /\ Len(results) >= 1 /\ call.consumed = 0 /\ call.buffered = 0)
        => result = OkNone

\* a frame was read, the peer closed, and the next call met the end
C8_Witness ==
    /\ WroteOnly("frame")
    /\ peer_closed
    /\ pc = "idle"
    /\ call.consumed = 0
    /\ call.buffered = 0
    /\ results = <<OkSome(written[1].msg), OkNone>>

(***************************************************************************)
(* Properties of the plugin subsystem.                                     *)
(***************************************************************************)
\* C9: the ids of the connections are pairwise distinct, unique_id never
\* returns an id it returned before nor the id of a connection that has
\* ended, and no two exchange tasks hold the same id.
C9_IdsAreUnique ==
    /\ \A c, d \in Conns : (c # d /\ id[c] # NoId /\ id[d] # NoId) => id[c] # id[d]
    /\ \A k \in 1..Len(given) :
          /\ given[k].id \notin given[k].ended
          /\ \A j \in 1..(k - 1) : given[j].id # given[k].id

\* an id was given after the connection of an earlier id had ended
C9_Witness ==
    /\ Len(given) = 2
    /\ given[2].ended # {}
    /\ \E c \in Conns : id[c] = given[2].id /\ ~Ended(c)

\* C10: handling New(plugin, id) does not fail and leaves a plugin with
\* that id in the table.
C10_RegisteredIsInserted ==
    handled.type = "New" => (failure = "" /\ Find(plugins, handled.id) # 0)

\* C11: when a plugin has closed its connection, the host application's
\* handler does not fail on the sender of that connection (and with it the
\* bridge, the acceptor and the other exchange loops keep running).
C11_FailureIsContained ==
    (\E c \in Conns : plugin[c] = "exited") => failure # "send on a closed channel"

\* C12: once the plugin of a registered id has closed its connection, the
\* table eventually has no entry for that id (while the host application
\* runs).
C12_ClosedIsUnregistered ==
    \A c \in Conns :
        (plugin[c] = "exited" /\ Find(plugins, id[c]) # 0)
            ~> (Find(plugins, id[c]) = 0 \/ ~HostRuns)

(***************************************************************************)
(* Properties of the registry.                                             *)
(***************************************************************************)
\* the RuntimeMessages handle_plugin_message has handled, oldest first
Handled == SubSeq(delivered, 1, Len(delivered) - Len(tx))

IsView(m, i) == m.type = "Request" /\ m.request.kind = "View" /\ m.id = i

IsRegistration(m, i) == m.type \in {"New", "Shutdown"} /\ m.id = i

\* the position of the last message of h that satisfies P(_, i), 0 if none
LastPos(h, P(_, _), i) ==
    IF \E n \in 1..Len(h) : P(h[n], i)
    THEN CHOOSE n \in 1..Len(h) : P(h[n], i) /\ \A k \in (n + 1)..Len(h) : ~P(h[k], i)
    ELSE 0

\* number of plugins of the table with id i
Count(ps, i) == Cardinality({k \in 1..Len(ps) : ps[k].id = i})

\* the views that views() yields for id i
ViewsFor(i) ==
    LET of(p) == p.id = i
        mine == SelectSeq(views, of)
    IN  [k \in 1..Len(mine) |-> mine[k].view]

\* C13: when the last ViewProduced handled for an id (with no registration
\* or unregistration of that id after it) carried B, views() yields B and
\* nothing else for the plugin of that id.
C13_ViewIsReplaced ==
    \A i \in Ids :
        LET n == LastPos(Handled, IsView, i)
        IN  (/\ n # 0
             /\ LastPos(Handled, IsRegistration, i) < n
             /\ Count(plugins, i) = 1)
                => ViewsFor(i) = <<SomeView(Handled[n].request.body)>>

\* ViewProduced(A) and then ViewProduced(B), B other than A, were handled
\* for a registered id
C13_Witness ==
    \E i \in Ids :
        /\ Len(Handled) = 3
        /\ Handled[1].type = "New" /\ Handled[1].id = i
        /\ IsView(Handled[2], i)
        /\ IsView(Handled[3], i)
        /\ Handled[2].request.body # Handled[3].request.body
        /\ ViewsFor(i) = <<SomeView(Handled[3].request.body)>>

\* the id was unregistered and not registered since
Unregistered(i) ==
    /\ LastPos(Handled, IsRegistration, i) # 0
    /\ Handled[LastPos(Handled, IsRegistration, i)].type = "Shutdown"

\* handle_plugin_message takes the next message of the stream
Handles(type) == tx # <<>> /\ tx' = Tail(tx) /\ Head(tx).type = type

\* C14: an id that was unregistered has no plugin in the table and no view
\* in views(), and handling a Request or a Shutdown for it changes neither
\* the table nor a channel of events and does not fail.
C14_UnregisteredIsGone ==
    /\ [](\A i \in Ids : Unregistered(i) => (Find(plugins, i) = 0 /\ ViewsFor(i) = <<>>))
    /\ [][((Handles("Request") \/ Handles("Shutdown")) /\ Unregistered(Head(tx).id))
            => (UNCHANGED <<plugins, updates>> /\ failure' = "")]_vars

\* a plugin was registered, unregistered, and a request of its id was
\* handled afterwards
C14_Witness ==
    /\ Len(Handled) = 3
    /\ Handled[1].type = "New"
    /\ Handled[2] = Shutdown(Handled[1].id)
    /\ Handled[3].type = "Request" /\ Handled[3].id = Handled[1].id
    /\ plugins = <<>>
    /\ failure = ""

\* a ViewProduced of id i was handled since i was last registered
Produced(h, i) ==
    \E n \in (LastPos(h, IsRegistration, i) + 1)..Len(h) : IsView(h[n], i)

\* C15: views() yields one view for a registered id that has produced a
\* view since its registration and none for any other id, and nothing on a
\* registry that has handled no message.
C15_ViewsAreTheProduced ==
    /\ HostRuns =>
          \A i \in Ids :
              Count(plugins, i) <= 1 =>
                  Len(ViewsFor(i)) = IF Find(plugins, i) # 0 /\ Produced(Handled, i)
                                     THEN 1 ELSE 0
    /\ Handled = <<>> => views = <<>>

\* two plugins are registered and one of them has produced a view
C15_Witness ==
    /\ Len(plugins) = 2
    /\ Count(plugins, 0) = 1
    /\ Count(plugins, 1) = 1
    /\ Len(views) = 1
    /\ \E i \in Ids : Produced(Handled, i) /\ ViewsFor(i) # <<>>

\* C16: handling Request(Message(bytes), id) for an id of the table appends
\* Message(bytes) to the channel of the plugin of that id and leaves the
\* other channels as they were.
C16_MessageIsRouted ==
    [][(/\ Handles("Request")
        /\ Head(tx).request.kind = "Message"
        /\ Find(plugins, Head(tx).id) # 0)
          => updates' = [updates EXCEPT ![plugins[Find(plugins, Head(tx).id)].chan] =
                            Append(@, [kind |-> "Message", body |-> Head(tx).request.body])]]_vars

\* C17: the table holds at most one plugin per id, whatever registrations
\* the registry is given.
C17_OneEntryPerId == \A i \in Ids : Count(plugins, i) <= 1

(***************************************************************************)
(* Properties of the exchange loops, the bridge and the acceptor.          *)
(***************************************************************************)
\* the events (frames that are not probes) of a socket queue
Events(q) ==
    LET event(f) == f # Probe
    IN  SelectSeq(q, event)

\* the events written to the plugin of connection c whose round is not
\* over: unread, being answered, or answered with the reply unread
Outstanding(c) ==
    Len(Events(to_plugin[c])) + (IF plugin[c] = "reply" THEN 1 ELSE 0) + Len(to_host[c])

Queued(c, kind) == \E k \in 1..Len(updates[c]) : updates[c][k].kind = kind

\* C18: at most one event of a connection is outstanding, none is while
\* the exchange loop of a live plugin is outside read_frame, and the Update
\* queued behind the Theme is not taken from the queue before the Theme.
C18_OneEventAtATime ==
    \A c \in Conns :
        /\ Outstanding(c) <= 1
        /\ (PluginOpen(c) /\ task[c] # "read") => Outstanding(c) = 0
        /\ message[c].kind = "Update" => ~Queued(c, "Theme")

\* a connection has had two rounds, the Theme's and the Update's
C18_Witness ==
    \E c \in Conns :
        /\ Len(sent[c]) = 2
        /\ task[c] = "probe"
        /\ Outstanding(c) = 0
        /\ PluginOpen(c)

\* the elements of the View requests of id i in a sequence of RuntimeMessages
ViewsIn(q, i) ==
    LET mine(m) == IsView(m, i)
        got == SelectSeq(q, mine)
    IN  [k \in 1..Len(got) |-> got[k].request.body]

\* the elements of the replies of id i in the channel the bridge reads
ViewsInChannel(q, i) ==
    LET mine(r) == r[2] = i /\ r[1].kind = "View"
        got == SelectSeq(q, mine)
    IN  [k \in 1..Len(got) |-> got[k][1].body]

\* the View replies of connection c that have not reached the registry,
\* the one nearest to it first
Pending(c) ==
    ViewsIn(tx, id[c]) \o ViewsInChannel(receiver, id[c])
        \o [k \in 1..Len(to_host[c]) |-> to_host[c][k].body]

\* C19: the View replies of a plugin that are on their way to the registry
\* are the last it sent, in the order it sent them, and the view the table
\* holds for the plugin is the one it sent just before them.
C19_RepliesArriveInOrder ==
    \A c \in Conns :
        id[c] # NoId =>
            LET n == Len(sent[c]) - Len(Pending(c))
            IN  /\ n >= 0
                /\ Pending(c) = SubSeq(sent[c], n + 1, Len(sent[c]))
                /\ Find(plugins, id[c]) # 0 =>
                      plugins[Find(plugins, id[c])].view =
                          IF n = 0 THEN NoView ELSE SomeView(sent[c][n])

\* a plugin has sent two different views, both have reached the registry,
\* and the other connection has a reply on its way
C19_Witness ==
    \E c, d \in Conns :
        /\ c # d
        /\ Len(sent[c]) = 2
        /\ sent[c][1] # sent[c][2]
        /\ Pending(c) = <<>>
        /\ Find(plugins, id[c]) # 0
        /\ plugins[Find(plugins, id[c])].view = SomeView(sent[c][2])
        /\ Len(sent[d]) >= 1

\* C20: once the plugin of an accepted connection has closed, the next
\* connection is still accepted, given its exchange task and announced with
\* New (unless the handler has failed on the insert of C10).
C20_AcceptorKeepsAccepting ==
    \A c \in Conns :
        (/\ task[c] = "unborn"
         /\ \A d \in Conns : d < c => task[d] # "unborn"
         /\ \E d \in Conns : d < c /\ plugin[d] = "exited")
            ~> (\/ task[c] \notin {"unborn", "spawned", "new"}
                \/ failure = "insertion index out of bounds")

(***************************************************************************)
(* Properties of the end of an exchange loop and of the event stream.      *)
(***************************************************************************)
\* C21: when write_frame fails (the plugin has closed), the exchange loop
\* emits Shutdown(id) and ends as its next step.
C21_WriteFailureCloses ==
    [][\A c \in Conns :
          (task[c] = "write" /\ ~PluginOpen(c) /\ task'[c] # "write")
              => (task'[c] = "done" /\ tx' = Append(tx, Shutdown(id[c])))]_vars

\* C22: the step that ends the task of a connection is the one that emits
\* Shutdown(id), so a task that has ended has emitted it.
C22_EndsThroughClosing ==
    [][\A c \in Conns :
          (~Ended(c) /\ task'[c] \in {"done", "panicked"})
              => tx' = Append(tx, Shutdown(id[c]))]_vars

\* C23: no Request of an id follows the Shutdown of that id on the stream
\* the host application consumes.
C23_NoRequestAfterUnregistered ==
    \A k \in 1..Len(tx) :
        tx[k].type = "Request" =>
            /\ handled # Shutdown(tx[k].id)
            /\ \A j \in 1..(k - 1) : tx[j] # Shutdown(tx[k].id)

\* C24: a Request or a Shutdown on the stream has the id of a task that has
\* sent its New, and that New is not behind it on the stream.
C24_RegisteredComesFirst ==
    \A k \in 1..Len(tx) :
        tx[k].type \in {"Request", "Shutdown"} =>
            /\ \E c \in Conns :
                  id[c] = tx[k].id /\ task[c] \notin {"unborn", "spawned", "new"}
            /\ \A j \in (k + 1)..Len(tx) :
                  ~(tx[j].type = "New" /\ tx[j].id = tx[k].id)

\* the New of a connection is on the stream with its Shutdown behind it,
\* while a Request of the other connection is on the stream too
C24_Witness ==
    \E j, k, n \in 1..Len(tx) :
        /\ j < k
        /\ tx[j].type = "New"
        /\ tx[k] = Shutdown(tx[j].id)
        /\ tx[n].type = "Request"

\* C25: an exchange loop that waits for the reply to an event it has
\* written does not wait for ever.
C25_SilentPluginIsDetected ==
    \A c \in Conns : (task[c] = "read") ~> (task[c] # "read")

\* the kinds of a sequence of events
Kinds(q) == [k \in 1..Len(q) |-> q[k].kind]

\* the kinds of the events put on the updates channel of connection c, in
\* the order they were put: written, taken from the channel and not
\* written, still queued
Put(c) ==
    wrote[c]
        \o (IF task[c] \in {"write", "panicked"} THEN <<message[c].kind>> ELSE <<>>)
        \o Kinds(updates[c])

NumberOf(kind, q) == Cardinality({k \in 1..Len(q) : q[k] = kind})

C27_IdsFollowAcceptOrder ==
    \A c, d \in Conns :
        (c < d /\ id[c] # NoId /\ id[d] # NoId) => id[c] < id[d]

\* the plugins of a table whose id is not i
Others(ps, i) ==
    LET other(p) == p.id # i
    IN  SelectSeq(ps, other)

\* the connections whose channel a plugin with id i of the table feeds
ChannelsOf(ps, i) == {ps[k].chan : k \in {j \in 1..Len(ps) : ps[j].id = i}}

\* C28: handling a Request keeps the plugins of the table, their ids and
\* senders, and changes no plugin of another id and no channel of another
\* id; handling a Shutdown removes the plugins of its id, keeps the others
\* in order and changes no channel; either changes nothing when no plugin
\* has the id.
C28_OnlyTheEntryOfTheId ==
    [][/\ Handles("Request") =>
            /\ Len(plugins') = Len(plugins)
            /\ \A k \in 1..Len(plugins) :
                  /\ plugins'[k].id = plugins[k].id
                  /\ plugins'[k].chan = plugins[k].chan
                  /\ plugins[k].id # Head(tx).id => plugins'[k] = plugins[k]
            /\ \A c \in Conns \ ChannelsOf(plugins, Head(tx).id) :
                  updates'[c] = updates[c]
       /\ Handles("Shutdown") =>
            /\ Others(plugins', Head(tx).id) = Others(plugins, Head(tx).id)
            /\ plugins' = Others(plugins', Head(tx).id)
            /\ updates' = updates
       /\ ((Handles("Request") \/ Handles("Shutdown")) /\ Find(plugins, Head(tx).id) = 0)
            => UNCHANGED <<plugins, updates>>]_vars

\* with two plugins in the table a Message of the first one's id was
\* routed: its channel has the Theme and the Message, the other's the Theme
C28_Witness ==
    /\ Len(plugins) = 2
    /\ plugins[1].id # plugins[2].id
    /\ plugins[1].chan # plugins[2].chan
    /\ handled.type = "Request"
    /\ handled.id = plugins[1].id
    /\ Kinds(updates[plugins[1].chan]) = <<"Theme", "Message">>
    /\ Kinds(updates[plugins[2].chan]) = <<"Theme">>

\* C29: a plugin has written no more replies than events were written to
\* it, and while it runs every event written to it is unread, being
\* answered, or answered once.
C29_PluginAnswersInLockstep ==
    \A c \in Conns :
        /\ Len(sent[c]) <= Len(wrote[c])
        /\ PluginOpen(c) =>
              Len(sent[c]) + (IF plugin[c] = "reply" THEN 1 ELSE 0)
                  + Len(Events(to_plugin[c])) = Len(wrote[c])

\* a plugin has answered the Theme and the Update and reads again
C29_Witness ==
    \E c \in Conns :
        /\ Len(wrote[c]) = 2
        /\ Len(sent[c]) = 2
        /\ plugin[c] = "read"
        /\ to_plugin[c] = <<Probe>>

\* C30: once the host end of its connection is closed, the loop of a
\* plugin process stops.
C30_PluginLoopStops ==
    \A c \in Conns : (HostClosed(c) /\ PluginOpen(c)) ~> ~PluginOpen(c)

====
